---- MODULE Spec2Model ----
(***************************************************************************)
(* Model of the identity-synchronisation and access-control core of the    *)
(* operational dashboard: the Clerk webhook receiver and the user          *)
(* management endpoints (server.js, supabase/functions/create-user), the   *)
(* dashboard's first-login sync (Dashboard.tsx), the row level security   *)
(* policies of the users / master_locations / stock tables, the stock      *)
(* refresh (supabase/functions/sync-stock) and the browser's shared        *)
(* Supabase client (lib/supabase.ts).                                      *)
(***************************************************************************)
EXTENDS Integers, FiniteSets, Sequences, TLC

VARIABLES
    users,          \* public.users: set of rows [id, clerk_id, name, role, locations]
    nextRowId,      \* next primary key handed out by the users table
    identities,     \* Clerk: set of identities [id, username, first_name, last_name, role, locations, seq]
    nextClerkId,    \* next identity id Clerk hands out
    outbox,         \* the webhook events Clerk has generated so far
    applied,        \* the events of outbox the webhook handler has verified and written to the table
    gw,             \* the create-user request in flight (edge function or Express)
    locActive,      \* master_locations.is_active, by location id
    stock,          \* public.stock: set of rows [id, m_location_id, location, m_product_id, product_type]
    sync,           \* sync-stock: the runs started so far and where each invocation stands
    client,         \* lib/supabase.ts in one browser: getTokenFunction and the requests under way
    last            \* the last request answered: what it was and how it was answered

vars ==
    <<users, nextRowId, identities, nextClerkId, outbox, applied, gw, locActive, stock, sync,
      client, last>>

----------------------------------------------------------------------------
(* Bounds *)

MaxIdentities == 2      \* identities Clerk creates in a run
MaxRowId == 3           \* primary keys the users table hands out in a run
MaxUpdates == 1         \* metadata updates made in the Clerk dashboard in a run
MaxSyncRuns == 2        \* invocations of sync-stock in a run
MaxLocationId == 3      \* primary keys the master_locations table hands out in a run
MaxRequests == 2        \* requests the dashboard sends through the shared client in a run

----------------------------------------------------------------------------
(* Roles and inputs *)

ValidRoles ==
    {"SUPERADMIN_ROLE", "BOD_ROLE", "SALES_MANAGER_ROLE", "SALES_SUPERVISOR_ROLE", "AUDITOR_ROLE"}

RoleEnum == ValidRoles \cup {"NO_ROLE"}

\* master_locations rows of the deployment: id -> name (the rows present and their
\* is_active are the variable locActive, a function from the ids in the table)
LocationIds == {1, 2}

LocationName(l) == IF l = 1 THEN "Jakarta" ELSE IF l = 2 THEN "Surabaya" ELSE "Medan"

\* users.locations is TEXT[]: the dashboard stores location ids in it, as text
IdText(l) == ToString(l)

\* public_metadata written in the Clerk dashboard ("" = no role set)
MetaEdits ==
    {[role |-> "AUDITOR_ROLE", locations |-> {}],
     [role |-> "SALES_MANAGER_ROLE", locations |-> {"1"}],
     [role |-> "INTERN_ROLE", locations |-> {}]}

\* create requests: username, password (its length, 0 = absent), role, locations
CreateRequests ==
    {[username |-> "alice", password |-> 8, role |-> "AUDITOR_ROLE", locations |-> {}],
     [username |-> "alice", password |-> 8, role |-> "SALES_MANAGER_ROLE", locations |-> {"1"}],
     [username |-> "alice", password |-> 8, role |-> "INTERN_ROLE", locations |-> {}],
     [username |-> "", password |-> 8, role |-> "AUDITOR_ROLE", locations |-> {}],
     [username |-> "alice", password |-> 5, role |-> "AUDITOR_ROLE", locations |-> {}],
     [username |-> "alice", password |-> 0, role |-> "AUDITOR_ROLE", locations |-> {}],
     [username |-> "alice", password |-> 8, role |-> "", locations |-> {}]}

\* who signs up: username / first_name / last_name ("" = absent) of the n-th identity
Profile(n) ==
    IF n = 1 THEN [username |-> "bob", first_name |-> "", last_name |-> ""]
    ELSE IF n = 2 THEN [username |-> "", first_name |-> "Ann", last_name |-> "Lee"]
    ELSE [username |-> "", first_name |-> "", last_name |-> ""]

\* svix signing: the secret the server is configured with (process.env.CLERK_WEBHOOK_SECRET)
WEBHOOK_SECRET == "whsec_server"

MinPasswordLength == 8

----------------------------------------------------------------------------
(* The users table *)

RowsOf(tbl, cid) == {r \in tbl : r.clerk_id = cid}

\* an INSERT INTO users on a table whose clerk_id column is not UNIQUE
UsersInsertNoUnique(tbl, rid, cid, name, role, locations) ==
    [error |-> FALSE,
     rows |-> tbl \cup {[id |-> rid, clerk_id |-> cid, name |-> name,
                         role |-> role, locations |-> locations]}]

\* INSERT INTO users: clerk_id is UNIQUE, a duplicate is rejected with an error
UsersInsert(tbl, rid, cid, name, role, locations) ==
    IF RowsOf(tbl, cid) # {}
    THEN [error |-> TRUE, rows |-> tbl]
    ELSE [error |-> FALSE,
          rows |-> tbl \cup {[id |-> rid, clerk_id |-> cid, name |-> name,
                              role |-> role, locations |-> locations]}]

\* UPDATE users SET name, role, locations WHERE clerk_id = cid (no row: nothing happens, no error)
UsersUpdateByClerkId(tbl, cid, name, role, locations) ==
    {IF r.clerk_id = cid
     THEN [r EXCEPT !.name = name, !.role = role, !.locations = locations]
     ELSE r : r \in tbl}

\* a DELETE that lost its WHERE clause (what C8 must tell apart from the real one)
UsersDeleteAll(tbl, cid) == {}

\* DELETE FROM users WHERE clerk_id = cid
UsersDeleteByClerkId(tbl, cid) == {r \in tbl : r.clerk_id # cid}

----------------------------------------------------------------------------
(* Clerk, the identity store, and the webhook events it generates *)

NoEvent ==
    [type |-> "none", id |-> 0, seq |-> 0, username |-> "", first_name |-> "",
     last_name |-> "", role |-> "", locations |-> {}]

\* the payload Clerk sends for an identity: evt.type and evt.data
Event(type, ident, seq) ==
    [type |-> type, id |-> ident.id, seq |-> seq, username |-> ident.username,
     first_name |-> ident.first_name, last_name |-> ident.last_name,
     role |-> ident.role, locations |-> ident.locations]

\* user.deleted carries the id only
DeletedEvent(ident) ==
    [type |-> "user.deleted", id |-> ident.id, seq |-> ident.seq, username |-> "",
     first_name |-> "", last_name |-> "", role |-> "", locations |-> {}]

Identity(cid) == CHOOSE i \in identities : i.id = cid

HasIdentity(cid) == \E i \in identities : i.id = cid

NewIdentity(cid, username, first, lastn, role, locations) ==
    [id |-> cid, username |-> username, first_name |-> first, last_name |-> lastn,
     role |-> role, locations |-> locations, seq |-> 1]

\* clerk.users.createUser: a new identity, announced by a user.created event
ClerkCreateUser(ident) ==
    /\ identities' = identities \cup {ident}
    /\ nextClerkId' = nextClerkId + 1
    /\ outbox' = outbox \cup {Event("user.created", ident, 0)}

\* a deleteUser that announces the deletion and keeps the identity
ClerkDeleteUserKeep(cid) ==
    /\ identities' = identities
    /\ outbox' = outbox \cup {DeletedEvent(Identity(cid))}

\* clerk.users.deleteUser: the identity is gone, announced by a user.deleted event
ClerkDeleteUser(cid) ==
    /\ identities' = identities \ {Identity(cid)}
    /\ outbox' = outbox \cup {DeletedEvent(Identity(cid))}

\* a person signs up in Clerk: no public_metadata yet
SignUp ==
    /\ nextClerkId <= MaxIdentities
    /\ LET p == Profile(nextClerkId)
       IN ClerkCreateUser(NewIdentity(nextClerkId, p.username, p.first_name, p.last_name, "", {}))
    /\ UNCHANGED <<users, nextRowId, applied, gw, locActive, stock, sync, last, client>>

\* public_metadata is edited in the Clerk dashboard: announced by a user.updated event
MetadataEdited(cid, role, locations) ==
    /\ HasIdentity(cid)
    /\ Cardinality({e \in outbox : e.type = "user.updated"}) < MaxUpdates
    /\ LET old == Identity(cid)
           new == [old EXCEPT !.role = role, !.locations = locations, !.seq = old.seq + 1]
       IN /\ identities' = (identities \ {old}) \cup {new}
          /\ outbox' = outbox \cup {Event("user.updated", new, old.seq)}
    /\ UNCHANGED <<users, nextRowId, nextClerkId, applied, gw, locActive, stock, sync, last, client>>

\* the identity is deleted in the Clerk dashboard
IdentityDeleted(cid) ==
    /\ HasIdentity(cid)
    /\ ClerkDeleteUser(cid)
    /\ UNCHANGED <<users, nextRowId, nextClerkId, applied, gw, locActive, stock, sync, last, client>>

----------------------------------------------------------------------------
(* POST /api/webhooks/clerk *)

\* the svix signature: an HMAC of "id.timestamp.body" under the signing key
Sign(key, svixId, svixTimestamp, body) ==
    [key |-> key, id |-> svixId, timestamp |-> svixTimestamp, body |-> body]

NoSignature == Sign("", "", "", NoEvent)

NoHeaders == [svix_id |-> "", svix_timestamp |-> "", svix_signature |-> NoSignature]

\* what is remembered of the last request answered
NoRequest ==
    [op |-> "none", caller |-> 0, target |-> 0, body |-> NoEvent, headers |-> NoHeaders,
     dbOk |-> TRUE, status |-> 0, hadRow |-> FALSE, again |-> FALSE, rows |-> {},
     shown |-> {}, impl |-> "", clerkOk |-> TRUE, withheld |-> {}]

\* a verification that accepts whatever it is given
VerifyAcceptAll(secret, body, headers) == TRUE

\* new Webhook(secret).verify(body, headers): recompute the signature and compare
Verify(secret, body, headers) ==
    headers.svix_signature = Sign(secret, headers.svix_id, headers.svix_timestamp, body)

\* the name stored for an event: username, else first and last name, else 'User'
EventName(e) ==
    IF e.username # "" THEN e.username
    ELSE IF e.first_name # "" /\ e.last_name # "" THEN e.first_name \o " " \o e.last_name
    ELSE IF e.first_name # "" THEN e.first_name
    ELSE IF e.last_name # "" THEN e.last_name
    ELSE "User"

\* public_metadata?.role || 'NO_ROLE'
EventRole(e) == IF e.role # "" THEN e.role ELSE "NO_ROLE"

\* case 'user.created': supabaseAdmin.from('users').insert(...)
ApplyCreated(tbl, rid, e) ==
    UsersInsert(tbl, rid, e.id, EventName(e), EventRole(e), e.locations).rows

\* case 'user.updated': supabaseAdmin.from('users').update(...).eq('clerk_id', id)
ApplyUpdated(tbl, e) ==
    UsersUpdateByClerkId(tbl, e.id, EventName(e), EventRole(e), e.locations)

\* case 'user.deleted': supabaseAdmin.from('users').delete().eq('clerk_id', id)
ApplyDeleted(tbl, e) == UsersDeleteByClerkId(tbl, e.id)

\* the response status of the handler
WebhookStatus(body, headers) ==
    IF WEBHOOK_SECRET = "" THEN 500
    ELSE IF headers.svix_id = "" \/ headers.svix_timestamp = "" \/ headers.svix_signature = NoSignature
    THEN 400
    ELSE IF ~Verify(WEBHOOK_SECRET, body, headers) THEN 400
    ELSE 200

\* a handler that turns the error of the write into an error response
WebhookResponseSurfacing(status, writeError) == IF status = 200 /\ writeError THEN 500 ELSE status

\* if (error) console.error(...) in each case: the error of the write is logged only, and
\* the answer after the switch is res.json({ success: true })
WebhookResponse(status, writeError) == status

\* the whole handler: body and headers as received, dbOk = the users table accepts the write
ClerkWebhook(body, headers, dbOk) ==
    LET status == WebhookStatus(body, headers)
        write == status = 200 /\ dbOk
        inserts == write /\ body.type = "user.created" /\ RowsOf(users, body.id) = {}
    IN /\ inserts => nextRowId <= MaxRowId
       /\ users' =
            IF ~write THEN users
            ELSE IF body.type = "user.created" THEN ApplyCreated(users, nextRowId, body)
            ELSE IF body.type = "user.updated" THEN ApplyUpdated(users, body)
            ELSE IF body.type = "user.deleted" THEN ApplyDeleted(users, body)
            ELSE users
       /\ nextRowId' = IF inserts THEN nextRowId + 1 ELSE nextRowId
       /\ applied' = IF write /\ body \in outbox THEN applied \cup {body} ELSE applied
       /\ last' = [NoRequest EXCEPT !.op = "webhook", !.body = body, !.headers = headers,
                                     !.dbOk = dbOk,
                                     !.status = WebhookResponse(status, ~dbOk),
                                     !.hadRow = (RowsOf(users, body.id) # {}),
                                     !.again = (body \in applied)]
       /\ UNCHANGED <<identities, nextClerkId, outbox, gw, locActive, stock, sync, client>>

\* headers as Clerk (svix) sends them for a body
SvixHeaders(key, body) ==
    [svix_id |-> "msg", svix_timestamp |-> "ts", svix_signature |-> Sign(key, "msg", "ts", body)]

\* a delivery, or redelivery, of a generated event by Clerk
Deliver(e, dbOk) ==
    /\ e \in outbox
    /\ ClerkWebhook(e, SvixHeaders(WEBHOOK_SECRET, e), dbOk)

\* requests that do not come from Clerk: a header missing, a signature under another
\* key, or a genuine signature attached to another body
ForgedBodies ==
    {[NoEvent EXCEPT !.type = "user.created", !.id = 1, !.username = "mallory",
                     !.role = "SUPERADMIN_ROLE"],
     [NoEvent EXCEPT !.type = "user.deleted", !.id = 1]}

ForgedHeaders(body) ==
    LET good == SvixHeaders(WEBHOOK_SECRET, NoEvent)
    IN {[good EXCEPT !.svix_id = ""],
        [good EXCEPT !.svix_timestamp = ""],
        [good EXCEPT !.svix_signature = NoSignature],
        good,
        SvixHeaders("whsec_other", body)}

Forge(body, headers) ==
    /\ body \in ForgedBodies
    /\ headers \in ForgedHeaders(body)
    /\ ClerkWebhook(body, headers, TRUE)

----------------------------------------------------------------------------
(* create-user: the edge function (impl "edge") and POST /api/users/create (impl "express") *)

GwIdle ==
    [pc |-> "idle", impl |-> "edge", username |-> "", password |-> 0, role |-> "",
     locations |-> {}, clerkId |-> 0, clerkFailed |-> FALSE, insertTried |-> FALSE,
     rollback |-> "none", status |-> 0, outage |-> FALSE]

\* the validation either endpoint runs before it calls Clerk: 0 = passed
CreateValidation(impl, username, password, role) ==
    IF username = "" \/ password = 0 \/ role = "" THEN 400
    ELSE IF password < MinPasswordLength THEN 400
    ELSE IF impl = "edge" /\ role \notin ValidRoles THEN 400
    ELSE 0

\* the request arrives and is validated
GwReceive(impl, username, password, role, locations) ==
    /\ gw.pc \in {"idle", "done"}
    /\ LET v == CreateValidation(impl, username, password, role)
           req == [GwIdle EXCEPT !.impl = impl, !.username = username, !.password = password,
                                 !.role = role, !.locations = locations]
       IN gw' = IF v # 0 THEN [req EXCEPT !.pc = "done", !.status = v]
                ELSE [req EXCEPT !.pc = "clerk"]
    /\ UNCHANGED <<users, nextRowId, identities, nextClerkId, outbox, applied, locActive, stock, sync, last,
                   client>>

\* clerk.users.createUser(...): apiError = Clerk answered with an errors array
GwCreateIdentity(ok, apiError) ==
    /\ gw.pc = "clerk"
    /\ ok => nextClerkId <= MaxIdentities
    /\ IF ok
       THEN /\ ClerkCreateUser(NewIdentity(nextClerkId, gw.username, "", "", gw.role, gw.locations))
            /\ gw' = [gw EXCEPT !.pc = "insert", !.clerkId = nextClerkId]
       ELSE /\ gw' = [gw EXCEPT !.pc = "done", !.clerkFailed = TRUE, !.outage = TRUE,
                                !.status = IF gw.impl = "edge" \/ apiError THEN 400 ELSE 500]
            /\ UNCHANGED <<identities, nextClerkId, outbox>>
    /\ UNCHANGED <<users, nextRowId, applied, locActive, stock, sync, last, client>>

\* supabaseAdmin.from('users').insert({clerk_id, name, role, locations}).select().single()
GwInsertUser(dbOk) ==
    /\ gw.pc = "insert"
    /\ dbOk => nextRowId <= MaxRowId
    /\ LET res == IF dbOk
                  THEN UsersInsert(users, nextRowId, gw.clerkId, gw.username, gw.role, gw.locations)
                  ELSE [error |-> TRUE, rows |-> users]
       IN /\ users' = res.rows
          /\ nextRowId' = IF res.error THEN nextRowId ELSE nextRowId + 1
          /\ gw' = IF res.error
                    THEN [gw EXCEPT !.pc = "rollback", !.insertTried = TRUE,
                                    !.outage = @ \/ ~dbOk]
                    ELSE [gw EXCEPT !.pc = "done", !.insertTried = TRUE, !.status = 201]
    /\ UNCHANGED <<identities, nextClerkId, outbox, applied, locActive, stock, sync, last, client>>

\* the insert failed: try { clerk.users.deleteUser(clerkUser.id) } catch { log }, then answer 500
GwRollback(ok) ==
    /\ gw.pc = "rollback"
    /\ ok => HasIdentity(gw.clerkId)
    /\ IF ok
       THEN ClerkDeleteUser(gw.clerkId)
       ELSE UNCHANGED <<identities, outbox>>
    /\ gw' = [gw EXCEPT !.pc = "done", !.status = 500, !.outage = @ \/ ~ok,
                        !.rollback = IF ok THEN "ok" ELSE "failed"]
    /\ UNCHANGED <<users, nextRowId, nextClerkId, applied, locActive, stock, sync, last, client>>

----------------------------------------------------------------------------
(* Dashboard: syncUser on first render of a signed-in user *)

\* user.username || user.fullName
DisplayName(ident) ==
    IF ident.username # "" THEN ident.username
    ELSE IF ident.first_name # "" /\ ident.last_name # "" THEN ident.first_name \o " " \o ident.last_name
    ELSE IF ident.first_name # "" THEN ident.first_name
    ELSE ident.last_name

\* an INSERT policy on users that only compares the identity
UsersInsertPolicyAnyRole(sub, row) == sub = row.clerk_id

\* row level security, INSERT on users: "Allow user self-registration"
UsersInsertPolicy(sub, row) == sub = row.clerk_id /\ row.role = "NO_ROLE"

\* select own row; insert {clerk_id, role: 'NO_ROLE', name} if there is none, else update the name
SyncUser(cid, dbOk) ==
    /\ HasIdentity(cid)
    /\ LET name == DisplayName(Identity(cid))
           mine == RowsOf(users, cid)
           new == [id |-> nextRowId, clerk_id |-> cid, name |-> name, role |-> "NO_ROLE",
                   locations |-> {}]
           inserts == dbOk /\ mine = {} /\ UsersInsertPolicy(cid, new)
       IN /\ inserts => nextRowId <= MaxRowId
          /\ users' =
               IF ~dbOk THEN users
               ELSE IF inserts
               THEN UsersInsert(users, nextRowId, cid, name, "NO_ROLE", {}).rows
               ELSE {IF r \in mine THEN [r EXCEPT !.name = name] ELSE r : r \in users}
          /\ nextRowId' = IF inserts THEN nextRowId + 1 ELSE nextRowId
          /\ last' = [NoRequest EXCEPT !.op = "syncUser", !.caller = cid, !.dbOk = dbOk,
                                        !.hadRow = (mine # {})]
    /\ UNCHANGED <<identities, nextClerkId, outbox, applied, gw, locActive, stock, sync, client>>

----------------------------------------------------------------------------
(* lib/supabase.ts: the one Supabase client of the browser and its token getter *)

\* the Clerk sessions the browser can hold; NoSession = signed out, and as a token: none
Sessions == {1, 2}

NoSession == 0

\* let getTokenFunction = null; nothing rendered, no request made
ClientInit ==
    [getTokenFunction |-> NoSession, session |-> NoSession, mounted |-> FALSE, ended |-> {},
     reqs |-> <<>>]

\* the Dashboard renders with this session: useMemo runs resetClerkSupabaseClient() when
\* there is none, createClerkSupabaseClient(() => session.getToken()) otherwise; endsOld =
\* the session shown before was signed out rather than kept next to the new one
ClientRender(s, endsOld) ==
    /\ s # client.session
    /\ s \notin client.ended
    /\ client' = [client EXCEPT !.getTokenFunction = s, !.session = s,
                                !.mounted = @ \/ s # NoSession,
                                !.ended = IF endsOld /\ client.session # NoSession
                                          THEN @ \cup {client.session} ELSE @]
    /\ UNCHANGED <<users, nextRowId, identities, nextClerkId, outbox, applied, gw, locActive,
                   stock, sync, last>>

\* an effect or handler of the Dashboard, started under some session it was rendered with,
\* builds a query on the shared client and awaits it
ClientIssue ==
    /\ client.mounted
    /\ Len(client.reqs) < MaxRequests
    /\ client' = [client EXCEPT !.reqs =
                     Append(@, [session |-> client.session,
                                getterAtIssue |-> client.getTokenFunction,
                                pc |-> "issued", getter |-> NoSession, token |-> NoSession])]
    /\ UNCHANGED <<users, nextRowId, identities, nextClerkId, outbox, applied, gw, locActive,
                   stock, sync, last>>

\* the client library calls the configured fetch for the request: getTokenFunction is read
\* now; without one the request goes out without a Clerk token
ClientFetch(n) ==
    /\ n \in 1..Len(client.reqs)
    /\ client.reqs[n].pc = "issued"
    /\ LET g == client.getTokenFunction
       IN client' = [client EXCEPT !.reqs[n] =
                        IF g = NoSession THEN [@ EXCEPT !.pc = "sent"]
                        ELSE [@ EXCEPT !.pc = "token", !.getter = g]]
    /\ UNCHANGED <<users, nextRowId, identities, nextClerkId, outbox, applied, gw, locActive,
                   stock, sync, last>>

\* await getTokenFunction() returns: the token of the session the getter closes over, or
\* null when that session has ended; the request is sent with it, or without Authorization
ClientSend(n) ==
    /\ n \in 1..Len(client.reqs)
    /\ client.reqs[n].pc = "token"
    /\ client' = [client EXCEPT !.reqs[n] =
                     [@ EXCEPT !.pc = "sent",
                               !.token = IF client.reqs[n].getter \in client.ended THEN NoSession
                                         ELSE client.reqs[n].getter]]
    /\ UNCHANGED <<users, nextRowId, identities, nextClerkId, outbox, applied, gw, locActive,
                   stock, sync, last>>

----------------------------------------------------------------------------
(* sync-stock: the edge function that refreshes the stock table from the iDempiere feed *)

\* .in('product_type', ['RAW MATERIAL', 'FINISHED_GOODS']): the rows a run deletes
RefreshedTypes == {"RAW MATERIAL", "FINISHED_GOODS"}

\* the invocations that can be in progress at once
SyncWorkers == {1, 2}

\* a record of the feed: AD_Org_ID.id, AD_Org_ID.identifier, id, product_type ("" = absent)
FeedRecord(loc, label, product, ptype) ==
    [loc |-> loc, label |-> label, product |-> product, ptype |-> ptype]

\* what the feed can answer: kind "unreachable" (fetch throws), "http500" (!response.ok),
\* "malformed" (no records array), "records"
NoFeed == [kind |-> "none", records |-> <<>>]

FeedResponses ==
    {[kind |-> "unreachable", records |-> <<>>],
     [kind |-> "http500", records |-> <<>>],
     [kind |-> "malformed", records |-> <<>>],
     [kind |-> "records", records |-> <<>>],
     [kind |-> "records",
      records |-> <<FeedRecord(1, "Jakarta_JKT", "P1", ""),
                    FeedRecord(2, "Surabaya_SBY", "P2", "FINISHED_GOODS"),
                    FeedRecord(9, "Ghost_X", "P3", "")>>],
     [kind |-> "records",
      records |-> <<FeedRecord(1, "Jakarta_JKT", "P1", ""),
                    FeedRecord(1, "Jakarta_JKT", "P4", "PACKAGING")>>]}

\* .from('master_locations').select('id, name').eq('id', id).eq('is_active', true).single()
LocationFound(id) == id \in DOMAIN locActive /\ locActive[id]

\* a transformation that copies the label of the feed into the location column
StockRecordFeedLabel(r) ==
    [m_location_id |-> r.loc, location |-> r.label, m_product_id |-> r.product,
     product_type |-> IF r.ptype = "" THEN "RAW MATERIAL" ELSE r.ptype]

\* const stockRecord = {...}: id and name come from the location row that was found
StockRecord(r) ==
    [m_location_id |-> r.loc, location |-> LocationName(r.loc), m_product_id |-> r.product,
     product_type |-> IF r.ptype = "" THEN "RAW MATERIAL" ELSE r.ptype]

\* the catch block: every thrown error is answered with this status
SyncErrorStatus(stage) == 500

\* one invocation: where it stands, what it fetched, what it accepted and skipped so far
SyncIdleRun ==
    [pc |-> "idle", run |-> 0, feed |-> NoFeed, i |-> 1, accepted |-> <<>>,
     unresolved |-> {}, errors |-> {}, failed |-> "", status |-> 0, before |-> {}]

SyncInit == [started |-> 0, run |-> [k \in SyncWorkers |-> SyncIdleRun]]

\* a check that lets a run with no accepted record go on to the delete
SyncNoneValidNever(accepted) == FALSE

\* if (stockRecords.length === 0) throw new Error('No valid stock records to insert')
SyncNoneValid(accepted) == accepted = <<>>

\* the end of the loop over data.records: throw when nothing was accepted, else go on
SyncAfterLoop(w) ==
    IF w.i <= Len(w.feed.records) THEN w
    ELSE IF SyncNoneValid(w.accepted)
    THEN [w EXCEPT !.pc = "done", !.failed = "empty", !.status = SyncErrorStatus("empty")]
    ELSE [w EXCEPT !.pc = "delete"]

\* the invocation starts and awaits the feed: fetch, response.ok, data.records
SyncFetch(k, resp) ==
    /\ sync.run[k].pc \in {"idle", "done"}
    /\ sync.started < MaxSyncRuns
    /\ LET w == [SyncIdleRun EXCEPT !.run = sync.started + 1, !.feed = resp, !.before = stock]
           next == IF resp.kind # "records"
                   THEN [w EXCEPT !.pc = "done", !.failed = "feed",
                                  !.status = SyncErrorStatus("feed")]
                   ELSE SyncAfterLoop([w EXCEPT !.pc = "resolve"])
       IN sync' = [started |-> sync.started + 1, run |-> [sync.run EXCEPT ![k] = next]]
    /\ UNCHANGED <<users, nextRowId, identities, nextClerkId, outbox, applied, gw, locActive,
                   stock, last, client>>

\* one turn of the loop: look the record's location up, transform or skip the record
SyncResolve(k, lookupOk) ==
    /\ sync.run[k].pc = "resolve"
    /\ LET w == sync.run[k]
           r == w.feed.records[w.i]
           found == lookupOk /\ LocationFound(r.loc)
           next == [w EXCEPT !.i = w.i + 1,
                             !.accepted = IF found THEN Append(@, StockRecord(r)) ELSE @,
                             !.unresolved = IF lookupOk /\ ~found THEN @ \cup {w.i} ELSE @,
                             !.errors = IF ~lookupOk THEN @ \cup {w.i} ELSE @]
       IN sync' = [sync EXCEPT !.run[k] = SyncAfterLoop(next)]
    /\ UNCHANGED <<users, nextRowId, identities, nextClerkId, outbox, applied, gw, locActive,
                   stock, last, client>>

\* supabase.from('stock').delete().in('product_type', [...])
SyncDelete(k, dbOk) ==
    /\ sync.run[k].pc = "delete"
    /\ stock' = IF dbOk THEN {s \in stock : s.product_type \notin RefreshedTypes} ELSE stock
    /\ sync' = [sync EXCEPT !.run[k] =
                  IF dbOk THEN [@ EXCEPT !.pc = "insert"]
                  ELSE [@ EXCEPT !.pc = "done", !.failed = "delete",
                                 !.status = SyncErrorStatus("delete")]]
    /\ UNCHANGED <<users, nextRowId, identities, nextClerkId, outbox, applied, gw, locActive, last,
                   client>>

\* the rows one insert statement adds: one per accepted record, each with a fresh id
SyncNewRows(w) ==
    {[id |-> <<w.run, j>>, m_location_id |-> w.accepted[j].m_location_id,
      location |-> w.accepted[j].location, m_product_id |-> w.accepted[j].m_product_id,
      product_type |-> w.accepted[j].product_type] : j \in 1..Len(w.accepted)}

\* supabase.from('stock').insert(stockRecords).select(), then the 200 response
SyncInsert(k, dbOk) ==
    /\ sync.run[k].pc = "insert"
    /\ stock' = IF dbOk THEN stock \cup SyncNewRows(sync.run[k]) ELSE stock
    /\ sync' = [sync EXCEPT !.run[k] =
                  IF dbOk THEN [@ EXCEPT !.pc = "done", !.status = 200]
                  ELSE [@ EXCEPT !.pc = "done", !.failed = "insert",
                                 !.status = SyncErrorStatus("insert")]]
    /\ UNCHANGED <<users, nextRowId, identities, nextClerkId, outbox, applied, gw, locActive, last,
                   client>>

----------------------------------------------------------------------------
(* The synchronisation system: Clerk, its webhook deliveries, the gateway, first login *)

\* the sample rows of the migration: one per location, product_type left at its default
StockRows ==
    {[id |-> <<0, l>>, m_location_id |-> l, location |-> LocationName(l),
      m_product_id |-> "RICE", product_type |-> "rice"] : l \in LocationIds}

Init ==
    /\ users = {}
    /\ nextRowId = 1
    /\ identities = {}
    /\ nextClerkId = 1
    /\ outbox = {}
    /\ applied = {}
    /\ gw = GwIdle
    /\ locActive = [l \in LocationIds |-> TRUE]
    /\ stock = StockRows
    /\ sync = SyncInit
    /\ client = ClientInit
    /\ last = NoRequest

EditMetadata == \E c \in 1..MaxIdentities, m \in MetaEdits : MetadataEdited(c, m.role, m.locations)

DeleteIdentity == \E c \in 1..MaxIdentities : IdentityDeleted(c)

DeliverEvent == \E e \in outbox, dbOk \in BOOLEAN : Deliver(e, dbOk)

ForgeRequest == \E b \in ForgedBodies : \E h \in ForgedHeaders(b) : Forge(b, h)

FirstLogin == \E c \in 1..MaxIdentities, dbOk \in BOOLEAN : SyncUser(c, dbOk)

Next ==
    \/ SignUp
    \/ EditMetadata
    \/ DeleteIdentity
    \/ DeliverEvent
    \/ ForgeRequest
    \/ FirstLogin

Spec == Init /\ [][Next]_vars

\* the gateway at work while Clerk delivers the events of the identities it creates
CreateRequest ==
    \E impl \in {"edge", "express"}, q \in CreateRequests :
        GwReceive(impl, q.username, q.password, q.role, q.locations)

CreateIdentity == \E ok \in BOOLEAN, apiError \in BOOLEAN : GwCreateIdentity(ok, apiError)

InsertUser == \E dbOk \in BOOLEAN : GwInsertUser(dbOk)

Rollback == \E ok \in BOOLEAN : GwRollback(ok)

NextGateway ==
    \/ CreateRequest
    \/ CreateIdentity
    \/ InsertUser
    \/ Rollback
    \/ DeliverEvent

SpecGateway == Init /\ [][NextGateway]_vars

----------------------------------------------------------------------------
(* Row level security: the policies the database applies to a signed-in caller *)

\* get_current_user_role(): the role of the row whose clerk_id is the JWT's sub, else NO_ROLE
get_current_user_role(sub) ==
    IF RowsOf(users, sub) = {} THEN "NO_ROLE" ELSE (CHOOSE r \in RowsOf(users, sub) : TRUE).role

\* the locations column of the caller's own row
CallerLocations(sub) == UNION {r.locations : r \in RowsOf(users, sub)}

\* UPDATE on users, "Users update own or SUPERADMIN updates any": USING
UsersUpdateUsing(sub, old) ==
    sub = old.clerk_id \/ get_current_user_role(sub) = "SUPERADMIN_ROLE"

\* WITH CHECK of "Users can update own name", the policy of the earlier guide that the
\* fixed script drops: own row, role and locations as stored
UsersUpdateCheckOwnUnchanged(sub, old, new) ==
    IF get_current_user_role(sub) = "SUPERADMIN_ROLE" THEN TRUE
    ELSE sub = new.clerk_id /\ new.role = old.role /\ new.locations = old.locations

\* WITH CHECK of "Users update own or SUPERADMIN updates any", on the row as written
UsersUpdateCheck(sub, old, new) ==
    IF get_current_user_role(sub) = "SUPERADMIN_ROLE" THEN TRUE
    ELSE sub = new.clerk_id

\* the columns an update may set ("" / {"-"} = column not in the payload)
NotSet == {"-"}

UpdatePayloads ==
    {[name |-> "zed", role |-> "", locations |-> NotSet]}
    \cup {[name |-> "", role |-> r, locations |-> NotSet] : r \in RoleEnum}
    \cup {[name |-> "", role |-> "", locations |-> l] : l \in {{}, {"1", "2"}, {"Jakarta"}}}
    \cup {[name |-> "zed", role |-> "SUPERADMIN_ROLE", locations |-> {"1", "2"}]}

Patched(old, payload) ==
    [old EXCEPT !.name = IF payload.name = "" THEN @ ELSE payload.name,
                !.role = IF payload.role = "" THEN @ ELSE payload.role,
                !.locations = IF payload.locations = NotSet THEN @ ELSE payload.locations]

\* supabaseClient.from('users').update(payload).eq('id', rowId), sent with the caller's token
RlsUpdateUser(sub, rowId, payload) ==
    /\ HasIdentity(sub)
    /\ \E old \in users :
          /\ old.id = rowId
          /\ LET new == Patched(old, payload)
                 allowed == UsersUpdateUsing(sub, old) /\ UsersUpdateCheck(sub, old, new)
             IN /\ users' = IF allowed THEN (users \ {old}) \cup {new} ELSE users
                /\ last' = [NoRequest EXCEPT !.op = "users.update", !.caller = sub,
                                              !.target = rowId]
    /\ UNCHANGED <<nextRowId, identities, nextClerkId, outbox, applied, gw, locActive, stock, sync,
                   client>>

\* UPDATE on master_locations, "SUPERADMIN can update locations"
LocationsUpdateUsing(sub) == get_current_user_role(sub) = "SUPERADMIN_ROLE"

\* handleSaveLocation: .from('master_locations').update({..., is_active}).eq('id', l)
RlsUpdateLocation(sub, l, active) ==
    /\ HasIdentity(sub)
    /\ locActive' = IF LocationsUpdateUsing(sub) /\ l \in DOMAIN locActive
                    THEN [locActive EXCEPT ![l] = active] ELSE locActive
    /\ last' = [NoRequest EXCEPT !.op = "locations.update", !.caller = sub, !.target = l]
    /\ UNCHANGED <<users, nextRowId, identities, nextClerkId, outbox, applied, gw, stock, sync,
                   client>>

\* INSERT on master_locations, "SUPERADMIN can insert locations"
LocationsInsertCheck(sub) == get_current_user_role(sub) = "SUPERADMIN_ROLE"

\* handleSaveLocation with id 0: .from('master_locations').insert(locData); the new row
\* takes the next id of the sequence
RlsInsertLocation(sub, active) ==
    /\ HasIdentity(sub)
    /\ LET id == CHOOSE i \in 1..(MaxLocationId + 1) :
                    i \notin DOMAIN locActive /\ \A j \in DOMAIN locActive : j < i
       IN /\ id <= MaxLocationId
          /\ locActive' = IF LocationsInsertCheck(sub)
                          THEN [l \in DOMAIN locActive \cup {id} |->
                                   IF l = id THEN active ELSE locActive[l]]
                          ELSE locActive
          /\ last' = [NoRequest EXCEPT !.op = "locations.insert", !.caller = sub, !.target = id]
    /\ UNCHANGED <<users, nextRowId, identities, nextClerkId, outbox, applied, gw, stock, sync,
                   client>>

\* DELETE on master_locations, "SUPERADMIN can delete locations"
LocationsDeleteUsing(sub) == get_current_user_role(sub) = "SUPERADMIN_ROLE"

\* handleDeleteLocation: .from('master_locations').delete().eq('id', l); stock.m_location_id
\* REFERENCES master_locations(id), so a location that has stock rows is not deleted
RlsDeleteLocation(sub, l) ==
    /\ HasIdentity(sub)
    /\ LET referenced == \E s \in stock : s.m_location_id = l
       IN locActive' = IF LocationsDeleteUsing(sub) /\ ~referenced
                       THEN [k \in DOMAIN locActive \ {l} |-> locActive[k]]
                       ELSE locActive
    /\ last' = [NoRequest EXCEPT !.op = "locations.delete", !.caller = sub, !.target = l]
    /\ UNCHANGED <<users, nextRowId, identities, nextClerkId, outbox, applied, gw, stock, sync,
                   client>>

\* a write policy on stock that admits every signed-in caller
StockWriteUsingAnyone(sub) == TRUE

\* INSERT, UPDATE and DELETE on stock, "SuperAdmin can manage stock" (FOR ALL ... USING)
StockWriteUsing(sub) == get_current_user_role(sub) = "SUPERADMIN_ROLE"

\* the row a caller may try to insert into stock through the database API
ManualStockRow(l) ==
    [id |-> <<MaxSyncRuns + 1, l>>, m_location_id |-> l, location |-> LocationName(l),
     m_product_id |-> "P9", product_type |-> "RAW MATERIAL"]

\* supabaseClient.from('stock').insert(row), sent with the caller's token
RlsInsertStock(sub, l) ==
    /\ HasIdentity(sub)
    /\ ManualStockRow(l) \notin stock
    /\ stock' = IF StockWriteUsing(sub) /\ l \in DOMAIN locActive
                THEN stock \cup {ManualStockRow(l)} ELSE stock
    /\ last' = [NoRequest EXCEPT !.op = "stock.insert", !.caller = sub, !.target = l]
    /\ UNCHANGED <<users, nextRowId, identities, nextClerkId, outbox, applied, gw, locActive, sync,
                   client>>

\* supabaseClient.from('stock').update({product_type}).eq('m_location_id', l)
RlsUpdateStock(sub, l, ptype) ==
    /\ HasIdentity(sub)
    /\ stock' = IF StockWriteUsing(sub)
                THEN {IF s.m_location_id = l THEN [s EXCEPT !.product_type = ptype] ELSE s :
                        s \in stock}
                ELSE stock
    /\ last' = [NoRequest EXCEPT !.op = "stock.update", !.caller = sub, !.target = l]
    /\ UNCHANGED <<users, nextRowId, identities, nextClerkId, outbox, applied, gw, locActive, sync,
                   client>>

\* supabaseClient.from('stock').delete().eq('m_location_id', l)
RlsDeleteStock(sub, l) ==
    /\ HasIdentity(sub)
    /\ stock' = IF StockWriteUsing(sub) THEN {s \in stock : s.m_location_id # l} ELSE stock
    /\ last' = [NoRequest EXCEPT !.op = "stock.delete", !.caller = sub, !.target = l]
    /\ UNCHANGED <<users, nextRowId, identities, nextClerkId, outbox, applied, gw, locActive, sync,
                   client>>

\* the SELECT policies on stock without the test of master_locations.is_active
StockSelectPolicyAnyLocation(sub, s) ==
    \/ get_current_user_role(sub) \in {"SUPERADMIN_ROLE", "BOD_ROLE", "AUDITOR_ROLE"}
    \/ /\ get_current_user_role(sub) \in {"SALES_MANAGER_ROLE", "SALES_SUPERVISOR_ROLE"}
       /\ s.location \in CallerLocations(sub)

\* SELECT on stock: the five policies, any of which admits the row
StockSelectPolicy(sub, s) ==
    \/ get_current_user_role(sub) = "SUPERADMIN_ROLE"
    \/ get_current_user_role(sub) = "BOD_ROLE"
    \/ /\ get_current_user_role(sub) = "SALES_MANAGER_ROLE"
       /\ s.location \in CallerLocations(sub)
       /\ \E l \in DOMAIN locActive : l = s.m_location_id /\ locActive[l]
    \/ /\ get_current_user_role(sub) = "SALES_SUPERVISOR_ROLE"
       /\ s.location \in CallerLocations(sub)
       /\ \E l \in DOMAIN locActive : l = s.m_location_id /\ locActive[l]
    \/ get_current_user_role(sub) = "AUDITOR_ROLE"

\* Number(loc) of an entry of users.locations: 0 stands for NaN
ToNumber(token) ==
    IF \E l \in LocationIds : IdText(l) = token
    THEN CHOOSE l \in LocationIds : IdText(l) = token
    ELSE 0

\* SELECT on master_locations: active rows, or every row for SUPERADMIN
LocationsSelectPolicy(sub, l) == locActive[l] \/ get_current_user_role(sub) = "SUPERADMIN_ROLE"

\* getLocationNamesFromIds over the locations the caller could fetch
getLocationNamesFromIds(sub, locationIds) ==
    {IF id \in DOMAIN locActive /\ LocationsSelectPolicy(sub, id)
     THEN (IF locActive[id] THEN LocationName(id) ELSE LocationName(id) \o " (Inactive)")
     ELSE "Unknown Location (" \o ToString(id) \o ")" : id \in locationIds}

\* processedStockData: what the dashboard keeps of the rows the query returned
processedStockData(sub, rows) ==
    IF get_current_user_role(sub) \in {"SALES_MANAGER_ROLE", "SALES_SUPERVISOR_ROLE"}
    THEN {s \in rows :
            s.location \in getLocationNamesFromIds(sub, {ToNumber(t) : t \in CallerLocations(sub)})}
    ELSE rows

\* fetchStockData: supabaseClient.from('stock').select('*')
RlsSelectStock(sub) ==
    /\ HasIdentity(sub)
    /\ LET rows == {s \in stock : StockSelectPolicy(sub, s)}
           scoped == IF get_current_user_role(sub)
                          \in {"SALES_MANAGER_ROLE", "SALES_SUPERVISOR_ROLE"}
                     THEN {s \in stock : /\ s.location \in CallerLocations(sub)
                                          /\ ~LocationFound(s.m_location_id)}
                     ELSE {}
       IN last' = [NoRequest EXCEPT !.op = "stock.select", !.caller = sub, !.rows = rows,
                                     !.shown = processedStockData(sub, rows),
                                     !.withheld = scoped \ rows]
    /\ UNCHANGED <<users, nextRowId, identities, nextClerkId, outbox, applied, gw, locActive, stock, sync,
                   client>>

\* SELECT on users, "Users can view own record or SUPERADMIN views all"
UsersSelectPolicy(sub, row) ==
    sub = row.clerk_id \/ get_current_user_role(sub) = "SUPERADMIN_ROLE"

\* supabaseClient.from('users').select('*'), sent with the caller's token
RlsSelectUsers(sub) ==
    /\ HasIdentity(sub)
    /\ last' = [NoRequest EXCEPT !.op = "users.select", !.caller = sub,
                                  !.rows = {r \in users : UsersSelectPolicy(sub, r)}]
    /\ UNCHANGED <<users, nextRowId, identities, nextClerkId, outbox, applied, gw, locActive, stock, sync,
                   client>>

\* the rows a caller may try to insert into users through the database API
InsertPayloads ==
    {[clerk_id |-> c, name |-> "eve", role |-> r, locations |-> {}] :
        c \in 1..MaxIdentities, r \in {"NO_ROLE", "SALES_MANAGER_ROLE", "SUPERADMIN_ROLE"}}

\* supabaseClient.from('users').insert(payload), sent with the caller's token: the only
\* INSERT policy is "Allow user self-registration"; clerk_id is UNIQUE
RlsInsertUser(sub, payload) ==
    /\ HasIdentity(sub)
    /\ nextRowId <= MaxRowId
    /\ LET res == UsersInsert(users, nextRowId, payload.clerk_id, payload.name, payload.role,
                              payload.locations)
           accepted == UsersInsertPolicy(sub, payload) /\ ~res.error
       IN /\ users' = IF accepted THEN res.rows ELSE users
          /\ nextRowId' = IF accepted THEN nextRowId + 1 ELSE nextRowId
          /\ last' = [NoRequest EXCEPT !.op = "users.insert", !.caller = sub,
                                        !.target = payload.clerk_id,
                                        !.status = IF accepted THEN 201 ELSE 403]
    /\ UNCHANGED <<identities, nextClerkId, outbox, applied, gw, locActive, stock, sync, client>>

\* DELETE on users, "SUPERADMIN can delete users"
UsersDeleteUsing(sub) == get_current_user_role(sub) = "SUPERADMIN_ROLE"

\* supabaseClient.from('users').delete().eq('id', rowId), sent with the caller's token
RlsDeleteUser(sub, rowId) ==
    /\ HasIdentity(sub)
    /\ users' = IF UsersDeleteUsing(sub) THEN {r \in users : r.id # rowId} ELSE users
    /\ last' = [NoRequest EXCEPT !.op = "users.delete", !.caller = sub, !.target = rowId]
    /\ UNCHANGED <<nextRowId, identities, nextClerkId, outbox, applied, gw, locActive, stock, sync,
                   client>>

\* a deployment in use: an administrator and a sales manager assigned locations 1 and 2
InitPolicy ==
    /\ users = {[id |-> 1, clerk_id |-> 1, name |-> "bob", role |-> "SUPERADMIN_ROLE", locations |-> {}],
                [id |-> 2, clerk_id |-> 2, name |-> "Ann Lee", role |-> "SALES_MANAGER_ROLE",
                 locations |-> {"1", "2"}]}
    /\ nextRowId = 3
    /\ identities = {NewIdentity(1, "bob", "", "", "SUPERADMIN_ROLE", {}),
                     NewIdentity(2, "", "Ann", "Lee", "SALES_MANAGER_ROLE", {"1", "2"})}
    /\ nextClerkId = 3
    /\ outbox = {}
    /\ applied = {}
    /\ gw = GwIdle
    /\ locActive = [l \in LocationIds |-> TRUE]
    /\ stock = StockRows
    /\ sync = SyncInit
    /\ client = ClientInit
    /\ last = NoRequest

UpdateUser == \E sub \in 1..MaxIdentities, r \in users, p \in UpdatePayloads : RlsUpdateUser(sub, r.id, p)

UpdateLocation == \E sub \in 1..MaxIdentities, l \in LocationIds, a \in BOOLEAN : RlsUpdateLocation(sub, l, a)

SelectStock == \E sub \in 1..MaxIdentities : RlsSelectStock(sub)

NextPolicy ==
    \/ UpdateUser
    \/ UpdateLocation
    \/ SelectStock

SpecPolicy == InitPolicy /\ [][NextPolicy]_vars

----------------------------------------------------------------------------
(* update-user and delete-user: the edge function actions and the Express endpoints *)

\* what an administrator asks to change ("" / NotSet = field not in the request)
UpdateRequests ==
    {[role |-> "AUDITOR_ROLE", locations |-> NotSet],
     [role |-> "", locations |-> {"1"}],
     [role |-> "SALES_SUPERVISOR_ROLE", locations |-> {"1", "2"}]}

\* clerk.users.updateUserMetadata(cid, { publicMetadata }): the keys given are merged into
\* the stored metadata, and Clerk announces the change with a user.updated event
ClerkUpdateUserMetadata(cid, role, locations) ==
    LET old == Identity(cid)
        new == [old EXCEPT !.role = IF role = "" THEN @ ELSE role,
                           !.locations = IF locations = NotSet THEN @ ELSE locations,
                           !.seq = old.seq + 1]
    IN /\ identities' = (identities \ {old}) \cup {new}
       /\ outbox' = outbox \cup {Event("user.updated", new, old.seq)}

\* Clerk can carry out an update: the identity exists (and the run has updates left)
ClerkCanUpdate(cid) ==
    /\ HasIdentity(cid)
    /\ Cardinality({e \in outbox : e.type = "user.updated"}) < MaxUpdates

\* the validation of action 'update-user': 0 = passed
UpdateValidation(clerkId, role, locations) ==
    IF clerkId = 0 \/ (role = "" /\ locations = NotSet) THEN 400
    ELSE IF role # "" /\ role \notin ValidRoles THEN 400
    ELSE 0

\* an update that writes the users table whether or not Clerk took the change
ClerkGateOpen(clerkOk) == TRUE

\* try { await clerk...(...) } catch { return error }: the handler goes on to the users
\* table only when the Clerk call did not throw
ClerkGate(clerkOk) == clerkOk

\* action 'update-user' of the edge function, the whole handler
EdgeUpdateUser(clerkId, role, locations, clerkOk, dbOk) ==
    LET v == UpdateValidation(clerkId, role, locations)
        toClerk == v = 0 /\ clerkOk
        write == v = 0 /\ ClerkGate(clerkOk) /\ dbOk
    IN /\ clerkOk => ClerkCanUpdate(clerkId)
       /\ IF toClerk THEN ClerkUpdateUserMetadata(clerkId, role, locations)
          ELSE UNCHANGED <<identities, outbox>>
       /\ users' = IF write
                   THEN {IF r.clerk_id = clerkId
                         THEN [r EXCEPT !.role = IF role = "" THEN @ ELSE role,
                                        !.locations = IF locations = NotSet THEN @ ELSE locations]
                         ELSE r : r \in users}
                   ELSE users
       /\ last' = [NoRequest EXCEPT !.op = "update-user", !.impl = "edge", !.target = clerkId,
                                     !.clerkOk = clerkOk, !.dbOk = dbOk,
                                     !.hadRow = (RowsOf(users, clerkId) # {}),
                                     !.status = IF v # 0 THEN v
                                                ELSE IF ~clerkOk THEN 400
                                                ELSE IF ~dbOk THEN 500 ELSE 200]
       /\ UNCHANGED <<nextRowId, nextClerkId, applied, gw, locActive, stock, sync, client>>

\* PATCH /api/users/:userId of the Express server, the whole handler
ExpressPatchUser(userId, role, locations, clerkOk, dbOk) ==
    LET found == {r \in users : r.id = userId}
        clerkId == IF found = {} THEN 0 ELSE (CHOOSE r \in found : TRUE).clerk_id
        toClerk == found # {} /\ clerkOk
        write == found # {} /\ ClerkGate(clerkOk) /\ dbOk
    IN /\ clerkOk => (found # {} /\ ClerkCanUpdate(clerkId))
       /\ IF toClerk
          THEN ClerkUpdateUserMetadata(clerkId, role, IF locations = NotSet THEN {} ELSE locations)
          ELSE UNCHANGED <<identities, outbox>>
       /\ users' = IF write
                   THEN {IF r.id = userId
                         THEN [r EXCEPT !.role = IF role = "" THEN @ ELSE role,
                                        !.locations = IF locations = NotSet THEN @ ELSE locations]
                         ELSE r : r \in users}
                   ELSE users
       /\ last' = [NoRequest EXCEPT !.op = "update-user", !.impl = "express", !.target = clerkId,
                                     !.clerkOk = clerkOk, !.dbOk = dbOk,
                                     !.hadRow = (found # {}),
                                     !.status = IF found = {} THEN 404
                                                ELSE IF ~clerkOk THEN 500
                                                ELSE IF ~dbOk THEN 500 ELSE 200]
       /\ UNCHANGED <<nextRowId, nextClerkId, applied, gw, locActive, stock, sync, client>>

\* a delete that goes on to the users table whatever Clerk answered
DeleteProceedsAlways(impl, clerkOk) == TRUE

\* after clerk.users.deleteUser threw: the edge function returns 400 from its catch, the
\* Express endpoint only logs ("Continue with Supabase deletion even if Clerk fails")
DeleteProceeds(impl, clerkOk) == impl = "express" \/ clerkOk

\* action 'delete-user' of the edge function, the whole handler
EdgeDeleteUser(clerkId, clerkOk, dbOk) ==
    LET write == clerkId # 0 /\ DeleteProceeds("edge", clerkOk) /\ dbOk
    IN /\ clerkOk => HasIdentity(clerkId)
       /\ IF clerkOk THEN ClerkDeleteUser(clerkId) ELSE UNCHANGED <<identities, outbox>>
       /\ users' = IF write THEN UsersDeleteByClerkId(users, clerkId) ELSE users
       /\ last' = [NoRequest EXCEPT !.op = "delete-user", !.impl = "edge", !.target = clerkId,
                                     !.clerkOk = clerkOk, !.dbOk = dbOk,
                                     !.hadRow = (RowsOf(users, clerkId) # {}),
                                     !.status = IF clerkId = 0 THEN 400
                                                ELSE IF ~clerkOk THEN 400
                                                ELSE IF ~dbOk THEN 500 ELSE 200]
       /\ UNCHANGED <<nextRowId, nextClerkId, applied, gw, locActive, stock, sync, client>>

\* DELETE /api/users/:userId of the Express server, the whole handler
ExpressDeleteUser(userId, clerkOk, dbOk) ==
    LET found == {r \in users : r.id = userId}
        clerkId == IF found = {} THEN 0 ELSE (CHOOSE r \in found : TRUE).clerk_id
        write == found # {} /\ DeleteProceeds("express", clerkOk) /\ dbOk
    IN /\ clerkOk => (found # {} /\ HasIdentity(clerkId))
       /\ IF clerkOk THEN ClerkDeleteUser(clerkId) ELSE UNCHANGED <<identities, outbox>>
       /\ users' = IF write THEN {r \in users : r.id # userId} ELSE users
       /\ last' = [NoRequest EXCEPT !.op = "delete-user", !.impl = "express", !.target = clerkId,
                                     !.clerkOk = clerkOk, !.dbOk = dbOk,
                                     !.hadRow = (found # {}),
                                     !.status = IF found = {} THEN 404
                                                ELSE IF ~dbOk THEN 500 ELSE 200]
       /\ UNCHANGED <<nextRowId, nextClerkId, applied, gw, locActive, stock, sync, client>>

\* administrators at work on a populated deployment
UpdateByEdge ==
    \E c \in 1..MaxIdentities, q \in UpdateRequests, clerkOk \in BOOLEAN, dbOk \in BOOLEAN :
        EdgeUpdateUser(c, q.role, q.locations, clerkOk, dbOk)

UpdateByExpress ==
    \E u \in 1..MaxRowId, q \in UpdateRequests, clerkOk \in BOOLEAN, dbOk \in BOOLEAN :
        ExpressPatchUser(u, q.role, q.locations, clerkOk, dbOk)

DeleteByEdge ==
    \E c \in 1..MaxIdentities, clerkOk \in BOOLEAN, dbOk \in BOOLEAN : EdgeDeleteUser(c, clerkOk, dbOk)

DeleteByExpress ==
    \E u \in 1..MaxRowId, clerkOk \in BOOLEAN, dbOk \in BOOLEAN : ExpressDeleteUser(u, clerkOk, dbOk)

NextAdmin ==
    \/ UpdateByEdge
    \/ UpdateByExpress
    \/ DeleteByEdge
    \/ DeleteByExpress

SpecAdmin == InitPolicy /\ [][NextAdmin]_vars

\* one invocation of sync-stock at a time, while an administrator edits the locations
FetchFeed == \E resp \in FeedResponses : SyncFetch(1, resp)

ResolveRecord == \E lookupOk \in BOOLEAN : SyncResolve(1, lookupOk)

DeleteStock == \E dbOk \in BOOLEAN : SyncDelete(1, dbOk)

InsertStock == \E dbOk \in BOOLEAN : SyncInsert(1, dbOk)

NextStock ==
    \/ FetchFeed
    \/ ResolveRecord
    \/ DeleteStock
    \/ InsertStock
    \/ UpdateLocation

SpecStock == InitPolicy /\ [][NextStock]_vars

\* two invocations of sync-stock at once, on a locations table nobody edits
FetchFeedBy == \E k \in SyncWorkers, resp \in FeedResponses : SyncFetch(k, resp)

ResolveRecordBy == \E k \in SyncWorkers, lookupOk \in BOOLEAN : SyncResolve(k, lookupOk)

DeleteStockBy == \E k \in SyncWorkers, dbOk \in BOOLEAN : SyncDelete(k, dbOk)

InsertStockBy == \E k \in SyncWorkers, dbOk \in BOOLEAN : SyncInsert(k, dbOk)

NextStockPair ==
    \/ FetchFeedBy
    \/ ResolveRecordBy
    \/ DeleteStockBy
    \/ InsertStockBy

SpecStockPair == InitPolicy /\ [][NextStockPair]_vars

\* one browser: sessions come and go while requests are under way
Render == \E s \in Sessions \cup {NoSession}, endsOld \in BOOLEAN : ClientRender(s, endsOld)

IssueRequest == ClientIssue

CallFetch == \E n \in 1..MaxRequests : ClientFetch(n)

SendRequest == \E n \in 1..MaxRequests : ClientSend(n)

NextClient ==
    \/ Render
    \/ IssueRequest
    \/ CallFetch
    \/ SendRequest

SpecClient == Init /\ [][NextClient]_vars

\* signed-in callers reading and writing the users table through the database API
SelectUsers == \E sub \in 1..MaxIdentities : RlsSelectUsers(sub)

RegisterUser == \E sub \in 1..MaxIdentities, p \in InsertPayloads : RlsInsertUser(sub, p)

DeleteUserRow == \E sub \in 1..MaxIdentities, rid \in 1..MaxRowId : RlsDeleteUser(sub, rid)

NextAccess ==
    \/ SelectUsers
    \/ RegisterUser
    \/ UpdateUser
    \/ DeleteUserRow
    \/ FirstLogin

SpecAccess == InitPolicy /\ [][NextAccess]_vars

\* signed-in callers writing to master_locations, stock and users through the database API
RolePayloads ==
    {[name |-> "", role |-> r, locations |-> NotSet] : r \in {"SUPERADMIN_ROLE", "AUDITOR_ROLE"}}

ChangeRole ==
    \E sub \in 1..MaxIdentities, r \in users, p \in RolePayloads : RlsUpdateUser(sub, r.id, p)

AddLocation == \E sub \in 1..MaxIdentities, a \in BOOLEAN : RlsInsertLocation(sub, a)

RemoveLocation == \E sub \in 1..MaxIdentities, l \in 1..MaxLocationId : RlsDeleteLocation(sub, l)

AddStock == \E sub \in 1..MaxIdentities : RlsInsertStock(sub, MaxLocationId)

ChangeStock == \E sub \in 1..MaxIdentities : RlsUpdateStock(sub, 1, "FINISHED_GOODS")

RemoveStock == \E sub \in 1..MaxIdentities, l \in 1..MaxLocationId : RlsDeleteStock(sub, l)

NextTables ==
    \/ ChangeRole
    \/ DeleteUserRow
    \/ AddLocation
    \/ UpdateLocation
    \/ RemoveLocation
    \/ AddStock
    \/ ChangeStock
    \/ RemoveStock

SpecTables == InitPolicy /\ [][NextTables]_vars

\* every writer of the users table at work on one deployment: the gateway's create, update
\* and delete, the webhook deliveries of the events these cause, and first logins
CreateAuditor ==
    \E impl \in {"edge", "express"} : GwReceive(impl, "alice", MinPasswordLength, "AUDITOR_ROLE", {})

SetRoleByEdge ==
    \E c \in 1..MaxIdentities : EdgeUpdateUser(c, "SALES_SUPERVISOR_ROLE", {"1", "2"}, TRUE, TRUE)

RemoveByEdge == \E c \in 1..MaxIdentities : EdgeDeleteUser(c, TRUE, TRUE)

NextDirectory ==
    \/ CreateAuditor
    \/ CreateIdentity
    \/ InsertUser
    \/ Rollback
    \/ SetRoleByEdge
    \/ RemoveByEdge
    \/ DeliverEvent
    \/ FirstLogin

SpecDirectory == Init /\ [][NextDirectory]_vars

----------------------------------------------------------------------------
(* Properties of the webhook receiver *)

\* the last answered request was a webhook of this type that passed verification
Handled(type) == last.op = "webhook" /\ last.status = 200 /\ last.body.type = type

\* this step is the handling of a webhook request
WebhookStep == last'.op = "webhook" /\ last' # last

\* the events Clerk generated for identity c
EventsOf(c) == {e \in outbox : e.id = c}

\* C4: the same verified user.created event applied two or more times leaves exactly
\* one users row for its id, and that row carries the role of the event.
C4_CreatedTwiceOneRowWithEventRole ==
    (Handled("user.created") /\ last.dbOk /\ last.again)
        => /\ Cardinality(RowsOf(users, last.body.id)) = 1
           /\ \A r \in RowsOf(users, last.body.id) : r.role = EventRole(last.body)

\* C5: a user.created event for an id that already has a row updates the row: afterwards
\* its name, role and locations are those of the event.
C5_CreatedUpdatesExistingRow ==
    (Handled("user.created") /\ last.dbOk /\ last.hadRow)
        => \A r \in RowsOf(users, last.body.id) :
              /\ r.name = EventName(last.body)
              /\ r.role = EventRole(last.body)
              /\ r.locations = last.body.locations

\* C6: a user.updated event for an id without a row creates the row: afterwards there is
\* one row for the id, with the name, role and locations of the event.
C6_UpdatedCreatesMissingRow ==
    (Handled("user.updated") /\ last.dbOk /\ ~last.hadRow)
        => /\ Cardinality(RowsOf(users, last.body.id)) = 1
           /\ \A r \in RowsOf(users, last.body.id) :
                 /\ r.name = EventName(last.body)
                 /\ r.role = EventRole(last.body)
                 /\ r.locations = last.body.locations

\* C7: once the user.created event of an identity and a later user.updated event have both
\* been applied, in either order, there is exactly one row for it, holding the metadata of
\* the user.updated event.
C7_CreatedUpdatedAnyOrder ==
    \A ec \in applied, eu \in applied :
        (/\ ec.type = "user.created" /\ eu.type = "user.updated" /\ ec.id = eu.id
         /\ \A e \in EventsOf(ec.id) : e.type # "user.deleted")
            => /\ Cardinality(RowsOf(users, eu.id)) = 1
               /\ \A r \in RowsOf(users, eu.id) :
                     r.role = EventRole(eu) /\ r.locations = eu.locations

\* C8: a verified user.deleted event is answered 200; the row with its id is removed and
\* every other row is left as it was; for an id without a row the table does not change.
\* (Nothing is removed when the table rejects the write: the answer is 200 all the same.)
C8_DeletedRemovesOnlyThatRow ==
    [][(WebhookStep /\ last'.body.type = "user.deleted" /\ last'.headers = SvixHeaders(WEBHOOK_SECRET, last'.body))
        => /\ last'.status = 200
           /\ last'.dbOk => users' = {r \in users : r.clerk_id # last'.body.id}
           /\ ~last'.dbOk => users' = users
           /\ RowsOf(users, last'.body.id) = {} => users' = users]_vars

C8_Witness ==
    /\ Handled("user.deleted") /\ last.dbOk /\ last.hadRow
    /\ RowsOf(users, last.body.id) = {}
    /\ users # {}

\* C9: when the events of an identity end with user.deleted and every one of them has
\* been applied, in whatever order, the table holds no row for the identity.
C9_DeletionWins ==
    \A c \in 1..MaxIdentities :
        (/\ \E e \in EventsOf(c) : e.type = "user.deleted"
         /\ EventsOf(c) \subseteq applied)
            => RowsOf(users, c) = {}

\* C10: a webhook request with an svix header missing, or with a signature that is not
\* the one made with the signing secret for its id, timestamp and body, is answered 400
\* and changes no row.
C10_Unverified(req) ==
    \/ req.headers.svix_id = ""
    \/ req.headers.svix_timestamp = ""
    \/ req.headers.svix_signature = NoSignature
    \/ req.headers.svix_signature.key # WEBHOOK_SECRET
    \/ req.headers.svix_signature.body # req.body

C10_RejectedWithoutChange ==
    [][(WebhookStep /\ C10_Unverified(last')) => (last'.status = 400 /\ users' = users)]_vars

C10_Witness ==
    /\ last.op = "webhook" /\ last.status = 400
    /\ last.headers.svix_id # "" /\ last.headers.svix_timestamp # ""
    /\ last.headers.svix_signature.key = "whsec_other"
    /\ last.body.type = "user.deleted"
    /\ RowsOf(users, last.body.id) # {}

----------------------------------------------------------------------------
(* Properties of create-user *)

\* C3 as claimed: a create request that ended without success after creating an identity
\* has deleted that identity again; if creating the identity failed no insert was tried.
C3_AllOrNothing ==
    gw.pc = "done" =>
        /\ (gw.status # 201 /\ gw.clerkId # 0) => ~HasIdentity(gw.clerkId)
        /\ gw.clerkFailed => ~gw.insertTried

\* C3 as amended: such a request has tried to delete the identity and answers 500; the
\* identity is gone when that delete succeeded (a failed delete is only logged); if
\* creating the identity failed no insert was tried.
C3_RollbackAttempted ==
    gw.pc = "done" =>
        /\ (gw.status # 201 /\ gw.clerkId # 0) =>
              /\ gw.insertTried
              /\ gw.status = 500
              /\ gw.rollback \in {"ok", "failed"}
              /\ gw.rollback = "ok" => ~HasIdentity(gw.clerkId)
        /\ gw.clerkFailed => (~gw.insertTried /\ gw.clerkId = 0)

C3_Witness ==
    /\ gw.pc = "done" /\ gw.status = 500 /\ gw.clerkId # 0
    /\ gw.rollback = "ok" /\ ~HasIdentity(gw.clerkId)

\* C12: a create request with username, password or role missing, a password shorter than
\* 8 characters or a role that is not one of the roles is answered 400 and has created
\* neither an identity nor a users row.
C12_Invalid(req) ==
    \/ req.username = "" \/ req.password = 0 \/ req.role = ""
    \/ req.password < MinPasswordLength
    \/ req.role \notin RoleEnum

C12_ValidationPrecedesWrites ==
    (gw.pc # "idle" /\ C12_Invalid(gw))
        => /\ gw.pc = "done" /\ gw.status = 400
           /\ gw.clerkId = 0 /\ ~gw.insertTried

----------------------------------------------------------------------------
(* Properties of update-user and delete-user *)

\* this step is the handling of an update or delete request
AdminStep(op) == last'.op = op /\ last' # last

\* the identity and its users row exist and carry the same role and locations
C28_Agree(ids, tbl, c) ==
    /\ \E i \in ids : i.id = c
    /\ RowsOf(tbl, c) # {}
    /\ \A i \in ids : \A r \in RowsOf(tbl, c) :
          i.id = c => (r.role = i.role /\ r.locations = i.locations)

\* C28: an update that reports success on an identity and a users row that agreed on role
\* and locations leaves them in agreement.
C28_StoresAgreeAfterUpdate ==
    [][(/\ AdminStep("update-user") /\ last'.status = 200
        /\ C28_Agree(identities, users, last'.target))
          => C28_Agree(identities', users', last'.target)]_vars

\* C13: an update request whose Clerk metadata update failed is answered with an error and
\* leaves the users table exactly as it was.
C13_ClerkFailureLeavesRow ==
    [][(AdminStep("update-user") /\ last'.hadRow /\ ~last'.clerkOk)
          => (last'.status \in {400, 500} /\ users' = users)]_vars

C13_Witness ==
    /\ last.op = "update-user" /\ ~last.clerkOk /\ last.dbOk /\ last.status \in {400, 500}
    /\ HasIdentity(last.target) /\ RowsOf(users, last.target) # {}

\* C14: a delete-user request of the edge function whose Clerk deletion failed (no identity
\* with that id, for one) is answered with an error and leaves the users table as it was.
C14_ClerkFailureKeepsRow ==
    [][(AdminStep("delete-user") /\ last'.impl = "edge" /\ ~last'.clerkOk)
          => (last'.status = 400 /\ users' = users)]_vars

C14_Witness ==
    /\ last.op = "delete-user" /\ last.impl = "edge" /\ ~last.clerkOk /\ last.dbOk
    /\ ~HasIdentity(last.target) /\ RowsOf(users, last.target) # {}

\* C15: when DELETE /api/users/:userId has answered 200, neither the Clerk identity nor
\* the users row of that user remains.
C15_SuccessMeansGoneFromBoth ==
    (last.op = "delete-user" /\ last.impl = "express" /\ last.status = 200)
        => (~HasIdentity(last.target) /\ RowsOf(users, last.target) = {})

\* C16: a delete-user request whose Clerk deletion succeeded and whose deletion of the
\* users row failed is answered 200.
C16_RowFailureStillSuccess ==
    (last.op = "delete-user" /\ last.impl = "edge" /\ last.clerkOk /\ ~last.dbOk)
        => last.status = 200

----------------------------------------------------------------------------
(* Properties of the shared Supabase client *)

\* C30: a request that has been sent carries the token of the session that was on screen
\* when it was made, or none; a request made while getTokenFunction was cleared carries none.
C30_NeverAnotherSessionsToken ==
    \A n \in 1..Len(client.reqs) :
        LET r == client.reqs[n]
        IN r.pc = "sent"
              => /\ r.token \in {NoSession, r.session}
                 /\ r.getterAtIssue = NoSession => r.token = NoSession

----------------------------------------------------------------------------
(* Properties of sync-stock *)

\* C17: a stock row is deleted only by the delete of a run whose feed answered with a
\* records array and that accepted at least one record; a run that ended because the
\* feed failed or because no record was accepted leaves the table as it found it.
C17_DeletesOnlyAfterAcceptedRecords ==
    [][/\ (stock \ stock' # {})
            => \E k \in SyncWorkers :
                  /\ sync.run[k].pc = "delete" /\ sync'.run[k].pc = "insert"
                  /\ sync.run[k].feed.kind = "records"
                  /\ Len(sync.run[k].accepted) >= 1
       /\ \A k \in SyncWorkers :
             (sync'.run[k].pc = "done" /\ sync'.run[k].failed \in {"feed", "empty"})
                => stock' = sync'.run[k].before]_vars

C17_Witness ==
    \E k \in SyncWorkers :
        /\ sync.run[k].pc = "done" /\ sync.run[k].failed = "empty"
        /\ Len(sync.run[k].feed.records) >= 1
        /\ \E s \in stock : s.product_type \in RefreshedTypes
        /\ stock = sync.run[k].before

\* C18: a run that answered 200 on a feed of N records, k of them referring to an unknown or
\* inactive location and every other lookup answered, has inserted exactly N-k rows, and
\* the stock rows of the product types it refreshed are exactly those rows: none from
\* before the run is left.
C18_FullReplaceWithSkipping ==
    \A k \in SyncWorkers :
        LET w == sync.run[k]
            types == RefreshedTypes \cup {w.accepted[j].product_type : j \in 1..Len(w.accepted)}
        IN (w.pc = "done" /\ w.status = 200 /\ w.errors = {})
              => /\ Cardinality(stock \ w.before) = Len(w.feed.records) - Cardinality(w.unresolved)
                 /\ {s \in stock : s.product_type \in types} = SyncNewRows(w)

C29_NoDuplicatesAfterTwoRuns ==
    \A k \in SyncWorkers : \A m \in SyncWorkers :
        (/\ k # m
         /\ sync.run[k].pc = "done" /\ sync.run[k].status = 200
         /\ sync.run[m].pc = "done" /\ sync.run[m].status = 200
         /\ sync.run[k].feed = sync.run[m].feed
         /\ sync.run[k].accepted = sync.run[m].accepted)
            => \A j \in 1..Len(sync.run[k].accepted) :
                  LET rec == sync.run[k].accepted[j]
                  IN rec.product_type \in RefreshedTypes
                        => Cardinality({s \in stock :
                                          /\ s.m_location_id = rec.m_location_id
                                          /\ s.m_product_id = rec.m_product_id
                                          /\ s.product_type = rec.product_type}) = 1

\* C20: a run whose insert failed after its delete reports a status different from the
\* one reported for a failure of the feed, for no accepted record and for a failed delete.
C20_InsertFailureDistinctCode ==
    \A k \in SyncWorkers :
        (sync.run[k].pc = "done" /\ sync.run[k].failed = "insert")
            => \A stage \in {"feed", "empty", "delete"} :
                  sync.run[k].status # SyncErrorStatus(stage)

----------------------------------------------------------------------------
(* Properties of the row level security policies *)

\* the step is a write of this kind sent by a caller whose role is not SUPERADMIN
C22_NonAdminWrite(ops) ==
    /\ last'.op \in ops /\ last' # last
    /\ get_current_user_role(last'.caller) # "SUPERADMIN_ROLE"

\* C22: an insert, update or delete on master_locations or stock sent by a caller whose
\* role is not SUPERADMIN leaves both tables as they were, and an update or delete on
\* users sent by such a caller leaves every other user's row as it was.
C22_OnlyAdminWrites ==
    [][/\ C22_NonAdminWrite({"locations.insert", "locations.update", "locations.delete",
                             "stock.insert", "stock.update", "stock.delete"})
            => locActive' = locActive /\ stock' = stock /\ users' = users
       /\ C22_NonAdminWrite({"users.update", "users.delete"})
            => /\ \A r \in users : r.clerk_id # last'.caller => r \in users'
               /\ locActive' = locActive /\ stock' = stock]_vars

C22_Witness ==
    /\ last.op = "stock.delete"
    /\ get_current_user_role(last.caller) = "AUDITOR_ROLE"
    /\ \E s \in stock : s.m_location_id = last.target
    /\ \E r \in users : r.clerk_id # last.caller /\ r.role = "SUPERADMIN_ROLE"

\* C26: the role of every row of the users table is one of the six values of the enum.
C26_RoleInEnum ==
    \A r \in users : r.role \in RoleEnum

\* C27: a create request that passed validation and met no failure of Clerk or of the
\* store ends with 201, and from then on the identity it created exists together with
\* exactly one users row, which carries the requested role and locations.
C27_CreateSurvivesWebhook ==
    (/\ gw.pc = "done" /\ ~gw.outage
     /\ CreateValidation(gw.impl, gw.username, gw.password, gw.role) = 0)
        => /\ gw.status = 201
           /\ HasIdentity(gw.clerkId)
           /\ \E r \in users :
                 /\ RowsOf(users, gw.clerkId) = {r}
                 /\ r.role = gw.role /\ r.locations = gw.locations

C24_UniqueExternalId ==
    \A r \in users : \A q \in users : r.clerk_id = q.clerk_id => r = q

C24_Witness ==
    /\ gw.pc = "rollback" /\ ~gw.outage
    /\ Cardinality(RowsOf(users, gw.clerkId)) = 1

\* C23: a row enters the users table through the database API only when it carries the
\* caller's own clerk_id and the role NO_ROLE.
C23_SelfRegistrationOnly ==
    [][(last'.op \in {"users.insert", "syncUser"} /\ last' # last)
          => \A r \in users' :
                (\A q \in users : q.id # r.id)
                    => r.clerk_id = last'.caller /\ r.role = "NO_ROLE"]_vars

C23_Witness ==
    /\ last.op = "users.insert" /\ last.status = 201
    /\ \E r \in users : r.id = nextRowId - 1 /\ r.clerk_id = last.caller /\ r.role = "NO_ROLE"

\* C21: a select on users returns to the caller its own row, every row when the caller's
\* role is SUPERADMIN, BOD or AUDITOR, and no other row otherwise.
C21_UserReadRule ==
    last.op = "users.select"
        => \A r \in users :
              r \in last.rows
                 <=> \/ r.clerk_id = last.caller
                     \/ get_current_user_role(last.caller)
                           \in {"SUPERADMIN_ROLE", "BOD_ROLE", "AUDITOR_ROLE"}

\* C1: an update a caller who is not SUPERADMIN sends against its own row leaves the
\* role and the locations of that row as they were.
C1_NoSelfEscalation ==
    [][\A old \in users :
          (/\ last'.op = "users.update" /\ last' # last
           /\ last'.caller = old.clerk_id /\ last'.target = old.id
           /\ old.role # "SUPERADMIN_ROLE")
             => \E new \in users' :
                   new.id = old.id /\ new.role = old.role /\ new.locations = old.locations]_vars

\* C2: a stock row is returned to a caller exactly when the caller's role is SUPERADMIN,
\* BOD or AUDITOR, or it is SALES_MANAGER / SALES_SUPERVISOR and the row's location is the
\* name of an active location whose id is among the caller's assigned locations.
C2_Visible(sub, s) ==
    \/ get_current_user_role(sub) \in {"SUPERADMIN_ROLE", "BOD_ROLE", "AUDITOR_ROLE"}
    \/ /\ get_current_user_role(sub) \in {"SALES_MANAGER_ROLE", "SALES_SUPERVISOR_ROLE"}
       /\ \E l \in DOMAIN locActive :
             locActive[l] /\ LocationName(l) = s.location /\ IdText(l) \in CallerLocations(sub)

C2_StockVisibility ==
    last.op = "stock.select"
        => \A s \in stock : s \in last.rows <=> C2_Visible(last.caller, s)

====
